---- MODULE Spec2Model ----
(***************************************************************************)
(* Model of the pprofio agent: the Profiler lifecycle (Start / Stop, the   *)
(* collection goroutines, the span aggregator) and the HTTP upload         *)
(* pipeline (HTTPStorage.Upload / uploadWithRetries).                      *)
(***************************************************************************)
EXTENDS Integers, Sequences, FiniteSets, TLC

(***************************************************************************)
(* Bounds of the model                                                     *)
(***************************************************************************)
\* total number of Start/Stop calls issued by the callers
MaxCalls == 4
\* number of spans the application creates
MaxSpans == 1
\* capacity of spanCh in the model (make(chan *Span, 1000) in the source)
SpanChCap == 1
\* largest retry budget of a hand-built HTTPStorage
MaxRetries == 3
\* number of validate calls made on one Config value
MaxValidations == 2
\* number of kinds a caller enables in a Config
MaxEnabled == 1
\* number of spans started in a burst against the intake queue
MaxBurst == 3

(***************************************************************************)
(* Program constants                                                       *)
(***************************************************************************)
\* config.go, lines 9-10, in seconds
DefaultSampleRate == 60
DefaultProfileDuration == 10
DefaultMemProfileRate == 4096
DefaultMutexFraction == 5
DefaultBlockProfileRate == 100
\* Retries set by NewHTTPStorage
NewHTTPStorageRetries == 3
\* runtime.MemProfileRate of an untouched Go runtime (512 KiB)
RuntimeMemProfileRate == 512 * 1024

Callers == {"g1", "g2"}
\* the contexts handed to Start: one that can be cancelled or expire, and
\* context.Background()
Ctxs == {"ctx1", "background"}
Cancellable == {"ctx1"}
NoOne == "none"

profileTypeCPU == "cpu"
profileTypeMemory == "memory"
profileTypeGoroutine == "goroutine"
profileTypeMutex == "mutex"
profileTypeBlock == "block"
profileTypeCustom == "custom"

Kinds == {profileTypeCPU, profileTypeMemory, profileTypeGoroutine,
          profileTypeMutex, profileTypeBlock, profileTypeCustom}

\* knob values of the host runtime before the profiler touches them
PriorKnobs == {[MemProfileRate |-> RuntimeMemProfileRate, MutexFraction |-> 0, BlockProfileRate |-> 0],
               [MemProfileRate |-> 1, MutexFraction |-> 2, BlockProfileRate |-> 3]}

VARIABLES
    config,        \* Profiler.config after validate: the enabled kinds and the knob values
    mu,            \* Profiler.mu: NoOne or the caller holding it
    stopCh,        \* Profiler.stopCh: "open" or "closed"
    closes,        \* number of close(p.stopCh) calls made
    wg,            \* Profiler.wg counter
    initialized,   \* Profiler.initialized
    original,      \* Profiler.original{MemProfileRate,MutexFraction,BlockProfileRate}
    beforeStart,   \* the host runtime's knobs as they were when the last successful Start began
    runtime,       \* the host runtime's profiling knobs
    spanCh,        \* Profiler.spanCh: queue of span ids
    tasks,         \* the running goroutines launched by start: collectProfiles / processCustomSpans
    ctxDone,       \* which external contexts are cancelled or expired
    pc,            \* position of each caller: "idle", "start", "stop", "stop_join"
    arg,           \* the ctx a caller passed to Start
    result,        \* what the caller's last call returned
    gen,           \* number of Start calls that succeeded
    startFailed,   \* number of Start calls that returned the already-started error
    calls,         \* number of Start/Stop calls issued
    spanState,     \* per span id: "none", "started", "ended"
    spanQueued,    \* span ids that StartSpan put on spanCh
    spanDropped,   \* span ids that StartSpan discarded because spanCh was full
    spanBare,      \* span ids that StartSpan created with no profiler in ctx
    nextSpan,      \* id of the next span StartSpan creates
    snapshots      \* span maps handed to processSpans by the flush

lifeVars == <<config, mu, stopCh, closes, wg, initialized, original, beforeStart, runtime, spanCh, tasks,
              ctxDone, pc, arg, result, gen, startFailed, calls, spanState, spanQueued, spanDropped, spanBare,
              nextSpan, snapshots>>

VARIABLES
    s,             \* the HTTPStorage: URL scheme, APIKey, Env, Retries
    fileReadable,  \* whether the blob file can be opened and read
    uploader,      \* the server: outcome of the i-th request
    upPc,          \* position in Upload: "precheck", "loop", "send", "done"
    attempt,       \* loop variable of uploadWithRetries
    requests,      \* number of requests handed to Client.Do
    delays,        \* the durations (ms) passed to time.Sleep, in order
    lastErr,       \* lastErr of uploadWithRetries
    blobRead,      \* whether readAndCompressFile was called on the blob
    ret            \* what Upload returned: [locator, err, code, wraps]

upVars == <<s, fileReadable, uploader, upPc, attempt, requests, delays, lastErr, blobRead, ret>>

VARIABLES
    storage,        \* dynamic type of Profiler.config.Storage
    outputToStdout, \* Profiler.config.OutputToStdout
    serviceName,    \* Profiler.config.ServiceName
    tagSet,         \* Profiler.config.Tags
    now,            \* time.Now().Unix() when the metadata is built
    pending,        \* enabled kinds whose tick has not been collected yet
    profileType,    \* the profileType argument of the uploadProfile in progress
    uploadResp,     \* uploadResp of uploadProfile: what Storage.Upload returned
    metadata,       \* the metadata map of uploadProfile
    stdout,         \* the lines written to the process's standard output
    posted,         \* the metadata records delivered to the /metadata endpoint
    prPc,           \* position in uploadProfile: "idle", "upload", "parse", "dispatch", "done"
    prErr,          \* the error uploadProfile returns
    mdPaths,        \* the ways the metadata of this tick went: "stdout", "network"
    uploads         \* number of Storage.Upload calls made for this tick

prVars == <<storage, outputToStdout, serviceName, tagSet, now, pending, profileType,
            uploadResp, metadata, stdout, posted, prPc, prErr, mdPaths, uploads>>

VARIABLES
    cfgIn,          \* the Config value as the caller wrote it
    cfg,            \* the Config value validate works on in place
    vErr,           \* what the last validate returned
    vRuns,          \* number of validate calls made on cfg
    prevCfg,        \* cfg as it was before the last validate call
    prevErr,        \* what the validate call before the last returned
    made            \* what New(cfgIn) returned: the error and the profiler's config

cfgVars == <<cfgIn, cfg, vErr, vRuns, prevCfg, prevErr, made>>

VARIABLES
    mc,             \* the metadataClient: scheme and host kind of ingestURL, retries
    mdPc,           \* position in sendMetadata: "idle", "check", "send", "sleep", "done"
    mdAttempt,      \* loop variable of sendMetadata
    mdRequests,     \* number of requests sendRequest handed to client.Do
    mdDelays,       \* the durations (ms) sendMetadata passed to time.Sleep, in order
    mdLastErr,      \* lastErr of sendMetadata
    mdRet           \* what sendMetadata returned: [err, wraps]

mdVars == <<mc, mdPc, mdAttempt, mdRequests, mdDelays, mdLastErr, mdRet>>

\* what the lifecycle actions, the upload actions, the uploadProfile actions,
\* the configuration actions and the sendMetadata actions leave alone
notLife == <<upVars, prVars, cfgVars, mdVars>>
notUpload == <<lifeVars, prVars, cfgVars, mdVars>>
notProfile == <<lifeVars, upVars, cfgVars, mdVars>>
notConfig == <<lifeVars, upVars, prVars, mdVars>>
notDispatch == <<lifeVars, upVars, prVars, cfgVars>>

vars == <<lifeVars, upVars, prVars, cfgVars, mdVars>>

NoError == [msg |-> "nil", code |-> 0, attempt |-> 0]

(***************************************************************************)
(* Profiler lifecycle                                                      *)
(***************************************************************************)
\* the sets of kinds the modelled configurations enable (validate leaves at
\* least one kind enabled; CPU and memory is the default pair)
EnabledChoices == {{profileTypeCPU, profileTypeMemory},
                   {profileTypeCPU, profileTypeCustom},
                   {profileTypeMutex, profileTypeBlock},
                   {profileTypeGoroutine},
                   {profileTypeCustom}}

Configs == {[Enabled |-> e,
             MemProfileRate |-> DefaultMemProfileRate,
             MutexFraction |-> DefaultMutexFraction,
             BlockProfileRate |-> DefaultBlockProfileRate] : e \in EnabledChoices}

\* start, lines 66-68: the already-started check
AlreadyStartedNever == FALSE
AlreadyStarted == initialized

\* start, lines 70-75: the values saved for restoration
SavedKnobs == [MemProfileRate |-> runtime.MemProfileRate,
               MutexFraction |-> 0,
               BlockProfileRate |-> 0]

\* start, lines 77-88: the knobs applied for the enabled kinds
AppliedKnobsAll ==
    [MemProfileRate |-> config.MemProfileRate,
     MutexFraction |-> config.MutexFraction,
     BlockProfileRate |-> config.BlockProfileRate]
AppliedKnobs ==
    [MemProfileRate |-> IF profileTypeMemory \in config.Enabled
                        THEN config.MemProfileRate ELSE runtime.MemProfileRate,
     MutexFraction |-> IF profileTypeMutex \in config.Enabled
                       THEN config.MutexFraction ELSE runtime.MutexFraction,
     BlockProfileRate |-> IF profileTypeBlock \in config.Enabled
                          THEN config.BlockProfileRate ELSE runtime.BlockProfileRate]

\* start, lines 90-119: one goroutine per enabled kind
\* where a goroutine of kind k begins: collectProfiles, lines 60-63, collects
\* before its loop; processCustomSpans goes straight to its select
FirstPositionWaits(k) == "select"
FirstPosition(k) == IF k = profileTypeCustom THEN "select" ELSE "collect"

\* file: the temporary blob of the tick exists;  early: the CPU capture of the
\* tick was ended by stopCh or the context before its duration had elapsed
NewTask(g, k, c) ==
    [gen |-> g, kind |-> k, ctx |-> c,
     pc |-> FirstPosition(k),
     file |-> FALSE, early |-> FALSE,
     spans |-> <<>>, spansLock |-> FALSE]

Launched(g, c) == {NewTask(g, k, c) : k \in config.Enabled}

\* start, lines 92-117: p.wg.Add(1) before each go statement
WgAddForgotten(launched) == 0
WgAdd(launched) == Cardinality(launched)

\* start, line 121
MarkStartedForgotten == initialized
MarkStarted == TRUE

\* stop, lines 135-137
NotRunningNever == FALSE
NotRunning == ~initialized

\* stop, lines 141-142: the receive case of the select is ready
StopSignalledNever == FALSE
StopSignalled == stopCh = "closed"

\* stop, lines 140-145: stopCh after the select, closed now or before
SignalStop == "closed"

\* stop, line 154
MarkStoppedForgotten == initialized
MarkStopped == FALSE

\* stop, line 147: wg.Wait()
JoinedAlways == TRUE
Joined == wg = 0

\* collectProfiles, lines 61-70: where the goroutine is after a tick failed
AfterErrorReturn == "returned"
AfterError == "select"

SetPc(t, p) == (tasks \ {t}) \cup {[t EXCEPT !.pc = p]}

\* the Profiler as newProfiler returns it, with n spans yet to be started
LifeBegin(n) ==
    /\ config \in Configs
    /\ mu = NoOne
    /\ stopCh = "open"
    /\ closes = 0
    /\ wg = 0
    /\ initialized = FALSE
    /\ original = [MemProfileRate |-> 0, MutexFraction |-> 0, BlockProfileRate |-> 0]
    /\ runtime \in PriorKnobs
    /\ beforeStart = runtime
    /\ spanCh = <<>>
    /\ tasks = {}
    /\ ctxDone = [c \in Ctxs |-> FALSE]
    /\ pc = [c \in Callers |-> "idle"]
    /\ arg = [c \in Callers |-> "ctx1"]
    /\ result = [c \in Callers |-> "none"]
    /\ gen = 0
    /\ startFailed = 0
    /\ calls = 0
    /\ spanState = [i \in 1..n |-> "none"]
    /\ spanQueued = {}
    /\ spanDropped = {}
    /\ spanBare = {}
    /\ nextSpan = 1
    /\ snapshots = <<>>

LifeInit == LifeBegin(MaxSpans)

\* no Upload call is in progress
UploadIdle ==
    /\ s = [ctor |-> "literal", URL |-> "https", APIKey |-> "key", Env |-> "", Retries |-> 0]
    /\ fileReadable = TRUE
    /\ uploader = <<>>
    /\ upPc = "idle"
    /\ attempt = 0
    /\ requests = 0
    /\ delays = <<>>
    /\ lastErr = NoError
    /\ blobRead = FALSE
    /\ ret = [locator |-> "", err |-> "none", code |-> 0, wraps |-> NoError]

\* the metadata map before uploadProfile has built it, and an empty tag set
NoMetadata == [k \in {} |-> ""]

\* no uploadProfile call is in progress
ProfileIdle ==
    /\ storage = "HTTPStorage"
    /\ outputToStdout = FALSE
    /\ serviceName = "svc"
    /\ tagSet = NoMetadata
    /\ now = 0
    /\ pending = {}
    /\ profileType = profileTypeCPU
    /\ uploadResp = ""
    /\ metadata = NoMetadata
    /\ stdout = <<>>
    /\ posted = <<>>
    /\ prPc = "idle"
    /\ prErr = "none"
    /\ mdPaths = {}
    /\ uploads = 0

\* New has not returned yet
NotMade == [state |-> "none", err |-> "none", cfg |-> <<>>]

\* the zero Config value
ZeroConfig ==
    [APIKey |-> "", IngestURL |-> "", ServiceName |-> "", Storage |-> "nil",
     OutputToStdout |-> FALSE, SampleRate |-> 0, ProfileDuration |-> 0,
     MemProfileRate |-> 0, MutexFraction |-> 0, BlockProfileRate |-> 0, Enabled |-> {}]

\* no Config is being validated
ConfigIdle ==
    /\ cfgIn = ZeroConfig
    /\ cfg = ZeroConfig
    /\ vErr = "none"
    /\ vRuns = 0
    /\ prevCfg = ZeroConfig
    /\ prevErr = "none"
    /\ made = NotMade

\* metadata.go, line 27: the budget newMetadataClient sets
MetadataRetries == 3

\* no sendMetadata call is in progress
DispatchIdle ==
    /\ mc = [scheme |-> "https", localhost |-> FALSE, retries |-> MetadataRetries]
    /\ mdPc = "idle"
    /\ mdAttempt = 0
    /\ mdRequests = 0
    /\ mdDelays = <<>>
    /\ mdLastErr = NoError
    /\ mdRet = [err |-> "none", wraps |-> NoError]

Init == LifeInit /\ UploadIdle /\ ProfileIdle /\ ConfigIdle /\ DispatchIdle

\* a goroutine calls p.Start(ctx) and reaches p.mu.Lock()
CallStart(c, x) ==
    /\ pc[c] = "idle"
    /\ calls < MaxCalls
    /\ calls' = calls + 1
    /\ pc' = [pc EXCEPT ![c] = "start"]
    /\ arg' = [arg EXCEPT ![c] = x]
    /\ result' = [result EXCEPT ![c] = "none"]
    /\ UNCHANGED <<config, mu, stopCh, closes, wg, initialized, original, beforeStart, runtime, spanCh, tasks,
                   ctxDone, gen, startFailed, spanState, spanQueued, spanDropped, spanBare, nextSpan, snapshots>>
    /\ UNCHANGED notLife

\* Profiler.start: Lock, the body, the deferred Unlock
StartRun(c) ==
    /\ pc[c] = "start"
    /\ mu = NoOne
    /\ pc' = [pc EXCEPT ![c] = "idle"]
    /\ arg' = [arg EXCEPT ![c] = "ctx1"]
    /\ IF AlreadyStarted
       THEN /\ result' = [result EXCEPT ![c] = "already started"]
            /\ startFailed' = startFailed + 1
            /\ UNCHANGED <<original, beforeStart, runtime, tasks, wg, initialized, gen>>
       ELSE /\ beforeStart' = runtime
            /\ original' = SavedKnobs
            /\ runtime' = AppliedKnobs
            /\ tasks' = tasks \cup Launched(gen + 1, arg[c])
            /\ wg' = wg + WgAdd(Launched(gen + 1, arg[c]))
            /\ initialized' = MarkStarted
            /\ gen' = gen + 1
            /\ result' = [result EXCEPT ![c] = "ok"]
            /\ UNCHANGED startFailed
    /\ UNCHANGED <<config, mu, stopCh, closes, spanCh, ctxDone, calls, spanState, spanQueued, spanDropped, spanBare,
                   nextSpan, snapshots>>
    /\ UNCHANGED notLife

\* a goroutine calls p.Stop() and reaches p.mu.Lock()
CallStop(c) ==
    /\ pc[c] = "idle"
    /\ calls < MaxCalls
    /\ calls' = calls + 1
    /\ pc' = [pc EXCEPT ![c] = "stop"]
    /\ result' = [result EXCEPT ![c] = "none"]
    /\ UNCHANGED <<config, mu, stopCh, closes, wg, initialized, original, beforeStart, runtime, spanCh, tasks,
                   ctxDone, arg, gen, startFailed, spanState, spanQueued, spanDropped, spanBare, nextSpan, snapshots>>
    /\ UNCHANGED notLife

\* Profiler.stop up to wg.Wait(): Lock, the not-running return, the channel close
StopRun(c) ==
    /\ pc[c] = "stop"
    /\ mu = NoOne
    /\ IF NotRunning
       THEN /\ pc' = [pc EXCEPT ![c] = "idle"]
            /\ result' = [result EXCEPT ![c] = "noop"]
            /\ UNCHANGED <<mu, stopCh, closes>>
       ELSE /\ stopCh' = SignalStop
            /\ closes' = IF StopSignalled THEN closes ELSE closes + 1
            /\ mu' = c
            /\ pc' = [pc EXCEPT ![c] = "stop_join"]
            /\ UNCHANGED result
    /\ UNCHANGED <<config, wg, initialized, original, beforeStart, runtime, spanCh, tasks, ctxDone, arg,
                   gen, startFailed, calls, spanState, spanQueued, spanDropped, spanBare, nextSpan, snapshots>>
    /\ UNCHANGED notLife

\* Profiler.stop from wg.Wait() returning to the deferred Unlock
StopJoin(c) ==
    /\ pc[c] = "stop_join"
    /\ Joined
    /\ runtime' = original
    /\ initialized' = MarkStopped
    /\ mu' = NoOne
    /\ pc' = [pc EXCEPT ![c] = "idle"]
    /\ result' = [result EXCEPT ![c] = "stopped"]
    /\ UNCHANGED <<config, stopCh, closes, wg, original, beforeStart, spanCh, tasks, ctxDone, arg, gen,
                   startFailed, calls, spanState, spanQueued, spanDropped, spanBare, nextSpan, snapshots>>
    /\ UNCHANGED notLife

\* the external context passed to Start is cancelled or its deadline expires
CancelCtx(x) ==
    /\ x \in Cancellable
    /\ ~ctxDone[x]
    /\ ctxDone' = [ctxDone EXCEPT ![x] = TRUE]
    /\ UNCHANGED <<config, mu, stopCh, closes, wg, initialized, original, beforeStart, runtime, spanCh, tasks,
                   pc, arg, result, gen, startFailed, calls, spanState, spanQueued, spanDropped, spanBare,
                   nextSpan, snapshots>>
    /\ UNCHANGED notLife

taskFrame == <<config, mu, stopCh, closes, initialized, original, beforeStart, runtime, ctxDone, pc, arg,
               result, gen, startFailed, calls, spanState, spanQueued, spanDropped, spanBare, nextSpan>>

\* collectCPU .. collectBlock, the deferred os.Remove: whether the temporary
\* blob is still there once the collect call has returned (ok: without error)
TempLeftOnError(ok) == ~ok
TempLeft(ok) == FALSE

\* collectProfile: the temporary file is created and the profile written or
\* started; on an error the collect call returns
TaskCapture(t) ==
    /\ t \in tasks
    /\ t.pc = "collect"
    /\ \E ok \in BOOLEAN :
         tasks' = (tasks \ {t}) \cup
                  {IF ok
                   THEN [t EXCEPT !.pc = IF t.kind = profileTypeCPU THEN "cpu" ELSE "upload",
                                  !.file = TRUE]
                   ELSE [t EXCEPT !.pc = "failed", !.file = TempLeft(FALSE)]}
    /\ UNCHANGED <<wg, spanCh, snapshots>>
    /\ UNCHANGED taskFrame
    /\ UNCHANGED notLife

WaitReasons == {"duration", "ctx", "stop"}

\* what ends the wait of collectCPU, lines 112-117
WaitEnds(t, reason) ==
    \/ reason = "duration"
    \/ reason = "ctx" /\ ctxDone[t.ctx]
    \/ reason = "stop" /\ stopCh = "closed"

\* collectCPU, lines 119-122: after the wait the profile is stopped, the file
\* closed and uploadProfile called
AfterCPUWaitAbandon == "select"
AfterCPUWait == "upload"

\* collectCPU, lines 112-120: the wait ends on the duration, the context or stopCh
TaskCPUStop(t, reason) ==
    /\ t \in tasks
    /\ t.pc = "cpu"
    /\ WaitEnds(t, reason)
    /\ tasks' = (tasks \ {t}) \cup
                {[t EXCEPT !.pc = AfterCPUWait, !.early = (reason # "duration")]}
    /\ UNCHANGED <<wg, spanCh, snapshots>>
    /\ UNCHANGED taskFrame
    /\ UNCHANGED notLife

\* uploadProfile returns (with or without an error) and the deferred os.Remove runs
TaskUpload(t) ==
    /\ t \in tasks
    /\ t.pc = "upload"
    /\ \E ok \in BOOLEAN :
         tasks' = (tasks \ {t}) \cup
                  {[t EXCEPT !.pc = IF ok THEN "select" ELSE "failed",
                             !.file = TempLeft(ok),
                             !.early = FALSE]}
    /\ UNCHANGED <<wg, spanCh, snapshots>>
    /\ UNCHANGED taskFrame
    /\ UNCHANGED notLife

\* collectProfiles, lines 61-63 and 68-70: the error of a tick is printed and
\* the goroutine goes (back) to its select
TaskLogError(t) ==
    /\ t \in tasks
    /\ t.pc = "failed"
    /\ tasks' = SetPc(t, AfterError)
    /\ UNCHANGED <<wg, spanCh, snapshots>>
    /\ UNCHANGED taskFrame
    /\ UNCHANGED notLife

\* collectProfiles, lines 65-67: a tick is received only at the select
TickServedAnytime(t) == t.pc \in {"select", "cpu", "upload"}
TickServed(t) == t.pc = "select"

\* collectProfiles, line 67: the ticker fires
TaskTick(t) ==
    /\ t \in tasks
    /\ t.kind # profileTypeCustom
    /\ TickServed(t)
    /\ tasks' = SetPc(t, "collect")
    /\ UNCHANGED <<wg, spanCh, snapshots>>
    /\ UNCHANGED taskFrame
    /\ UNCHANGED notLife

\* collectProfiles lines 71-74 and processCustomSpans lines 63-67: return, wg.Done()
TaskExit(t) ==
    /\ t \in tasks
    /\ t.pc = "select"
    /\ stopCh = "closed" \/ ctxDone[t.ctx]
    /\ tasks' = tasks \ {t}
    /\ wg' = wg - 1
    /\ UNCHANGED <<spanCh, snapshots>>
    /\ UNCHANGED taskFrame
    /\ UNCHANGED notLife

\* processCustomSpans, lines 40-43: receive a span, Lock, append, Lock again
AggReceive(t) ==
    /\ t \in tasks
    /\ t.kind = profileTypeCustom
    /\ t.pc = "select"
    /\ spanCh # <<>>
    /\ spanCh' = Tail(spanCh)
    /\ tasks' = (tasks \ {t}) \cup
                {[t EXCEPT !.spans = Append(t.spans, Head(spanCh)),
                           !.spansLock = TRUE,
                           !.pc = "blocked"]}
    /\ UNCHANGED <<wg, snapshots>>
    /\ UNCHANGED taskFrame
    /\ UNCHANGED notLife

\* processCustomSpans, lines 45-61: the flush tick
AggFlush(t) ==
    /\ t \in tasks
    /\ t.kind = profileTypeCustom
    /\ t.pc = "select"
    /\ IF Len(t.spans) > 0
       THEN /\ snapshots' = Append(snapshots, t.spans)
            /\ tasks' = (tasks \ {t}) \cup {[t EXCEPT !.spans = <<>>]}
       ELSE UNCHANGED <<snapshots, tasks>>
    /\ UNCHANGED <<wg, spanCh>>
    /\ UNCHANGED taskFrame
    /\ UNCHANGED notLife

spanFrame == <<config, mu, stopCh, closes, wg, initialized, original, beforeStart, runtime, tasks, ctxDone, pc,
               arg, result, gen, startFailed, calls, snapshots>>

\* StartSpan, lines 181-186: the send case of the select can proceed
QueueHasRoomAlways == TRUE
QueueHasRoom == Len(spanCh) < SpanChCap

\* StartSpan, line 177: ctx carries a non-nil *Profiler under spanKey
AssociatedAlways(withProfiler) == TRUE
Associated(withProfiler) == withProfiler

\* StartSpan: the span is created and, with a profiler in ctx, offered to spanCh
StartSpan(withProfiler) ==
    /\ nextSpan \in DOMAIN spanState
    /\ nextSpan' = nextSpan + 1
    /\ spanState' = [spanState EXCEPT ![nextSpan] = "started"]
    /\ spanBare' = IF withProfiler THEN spanBare ELSE spanBare \cup {nextSpan}
    /\ IF Associated(withProfiler)
       THEN IF QueueHasRoom
            THEN /\ spanCh' = Append(spanCh, nextSpan)
                 /\ spanQueued' = spanQueued \cup {nextSpan}
                 /\ UNCHANGED spanDropped
            ELSE /\ spanDropped' = spanDropped \cup {nextSpan}
                 /\ UNCHANGED <<spanCh, spanQueued>>
       ELSE UNCHANGED <<spanCh, spanQueued, spanDropped>>
    /\ UNCHANGED spanFrame
    /\ UNCHANGED notLife

\* Span.End: the duration is set
SpanEnd(i) ==
    /\ spanState[i] = "started"
    /\ spanState' = [spanState EXCEPT ![i] = "ended"]
    /\ UNCHANGED <<spanCh, spanQueued, spanDropped, spanBare, nextSpan>>
    /\ UNCHANGED spanFrame
    /\ UNCHANGED notLife

Next ==
    \/ \E c \in Callers, x \in Ctxs : CallStart(c, x)
    \/ \E c \in Callers : StartRun(c)
    \/ \E c \in Callers : CallStop(c)
    \/ \E c \in Callers : StopRun(c)
    \/ \E c \in Callers : StopJoin(c)
    \/ \E x \in Ctxs : CancelCtx(x)
    \/ \E t \in tasks : TaskCapture(t)
    \/ \E t \in tasks, r \in WaitReasons : TaskCPUStop(t, r)
    \/ \E t \in tasks : TaskUpload(t)
    \/ \E t \in tasks : TaskLogError(t)
    \/ \E t \in tasks : TaskTick(t)
    \/ \E t \in tasks : TaskExit(t)
    \/ \E t \in tasks : AggReceive(t)
    \/ \E t \in tasks : AggFlush(t)
    \/ \E w \in BOOLEAN : StartSpan(w)
    \/ \E i \in DOMAIN spanState : SpanEnd(i)

Spec == Init /\ [][Next]_vars

(***************************************************************************)
(* Upload pipeline: HTTPStorage.Upload and uploadWithRetries               *)
(***************************************************************************)
\* the body of a 2xx response: the locator
Body == "https://storage/profile123"

\* the HTTPStorage values the program builds: NewHTTPStorage (Retries 3),
\* the literal of DefaultConfig (Retries left at its zero value) and
\* hand-built literals with any budget
Storages ==
    {[ctor |-> "NewHTTPStorage", URL |-> u, APIKey |-> "key", Env |-> e,
      Retries |-> NewHTTPStorageRetries] : u \in {"https", "http"}, e \in {"", "local"}}
    \cup {[ctor |-> "DefaultConfig", URL |-> u, APIKey |-> "key", Env |-> "",
           Retries |-> 0] : u \in {"https", "http"}}
    \cup {[ctor |-> "literal", URL |-> "https", APIKey |-> k, Env |-> "",
           Retries |-> r] : k \in {"key", ""}, r \in 0..MaxRetries}

Statuses == {200, 204, 302, 400, 401, 403, 404, 429, 500, 503}

Resp(code) == [status |-> code, err |-> "none"]
\* Client.Do returns an error: no response
TransportFailure == [status |-> 0, err |-> "transport"]
\* a 2xx response whose body cannot be read
UnreadableBody == [status |-> 200, err |-> "body"]

Outcomes == {Resp(c) : c \in Statuses} \cup {TransportFailure, UnreadableBody}

ScriptLen(r) == IF r >= 1 THEN r ELSE 1

\* what the server does with the i-th request (the last entry repeats)
Answer(i) == uploader[IF i <= Len(uploader) THEN i ELSE Len(uploader)]

\* uploadWithRetries, line 96: the loop condition
LoopContinuesOffByOne(a) == a <= s.Retries
LoopContinues(a) == a < s.Retries

\* uploadWithRetries, lines 99-100: the sleep before attempt a (a > 0), in ms
BackoffFlat(a) == 100
Backoff(a) == (2 ^ (a - 1)) * 100

\* uploadWithRetries, line 128: a status outside 200..299
NonSuccessRedirectAccepted(code) == code < 200 \/ code >= 400
NonSuccess(code) == code < 200 \/ code >= 300

\* uploadWithRetries, lines 115-142: what one attempt's outcome leads to
ClassifyAuthRetried(o) ==
    IF o.err = "transport" THEN "retry"
    ELSE IF o.status = 429 \/ o.status \in {401, 403} \/ (o.status >= 500 /\ o.status < 600)
         THEN "retry"
    ELSE IF NonSuccess(o.status) THEN "fatal"
    ELSE IF o.err = "body" THEN "retry"
    ELSE "success"
Classify(o) ==
    IF o.err = "transport" THEN "retry"
    ELSE IF o.status = 401 \/ o.status = 403 THEN "auth"
    ELSE IF o.status = 429 \/ (o.status >= 500 /\ o.status < 600) THEN "retry"
    ELSE IF NonSuccess(o.status) THEN "fatal"
    ELSE IF o.err = "body" THEN "retry"
    ELSE "success"

\* the error an attempt that is retried leaves in lastErr
AttemptError(o, n) ==
    [msg |-> IF o.err = "transport" THEN "request failed"
             ELSE IF o.err = "body" THEN "failed to read response"
             ELSE "server error",
     code |-> o.status, attempt |-> n]

\* the lifecycle part stands still while the pipeline is examined
LifeParked ==
    /\ LifeInit
    /\ config.Enabled = {profileTypeCPU, profileTypeMemory}
    /\ runtime.MemProfileRate = RuntimeMemProfileRate

UploadInit ==
    /\ s \in Storages
    /\ fileReadable \in BOOLEAN
    /\ uploader \in [1..ScriptLen(s.Retries) -> Outcomes]
    /\ upPc = "precheck"
    /\ attempt = 0
    /\ requests = 0
    /\ delays = <<>>
    /\ lastErr = NoError
    /\ blobRead = FALSE
    /\ ret = [locator |-> "", err |-> "none", code |-> 0, wraps |-> NoError]

InitUpload == LifeParked /\ UploadInit /\ ProfileIdle /\ ConfigIdle /\ DispatchIdle

Fail(e, c, w) == [locator |-> "", err |-> e, code |-> c, wraps |-> w]

\* Upload, line 52: the destination is refused for its scheme
InsecureDestinationAllowed == FALSE
InsecureDestination == s.URL # "https" /\ s.Env # "local"

\* Upload, lines 42-60: the checks before uploadWithRetries is entered
UploadPrecheck ==
    /\ upPc = "precheck"
    /\ IF s.URL = "" \/ s.APIKey = ""
       THEN /\ upPc' = "done"
            /\ ret' = Fail("URL and APIKey are required", 0, NoError)
            /\ UNCHANGED blobRead
       ELSE IF InsecureDestination
       THEN /\ upPc' = "done"
            /\ ret' = Fail("HTTPS is required for secure uploads", 0, NoError)
            /\ UNCHANGED blobRead
       ELSE IF ~fileReadable
       THEN /\ upPc' = "done"
            /\ ret' = Fail("failed to open file", 0, NoError)
            /\ blobRead' = TRUE
       ELSE /\ upPc' = "loop"
            /\ blobRead' = TRUE
            /\ UNCHANGED ret
    /\ UNCHANGED <<s, fileReadable, uploader, attempt, requests, delays, lastErr>>
    /\ UNCHANGED notUpload

\* uploadWithRetries, lines 96-101 and 147: loop test, backoff sleep, exhaustion
UploadLoop ==
    /\ upPc = "loop"
    /\ IF LoopContinues(attempt)
       THEN /\ delays' = IF attempt > 0 THEN Append(delays, Backoff(attempt)) ELSE delays
            /\ upPc' = "send"
            /\ UNCHANGED ret
       ELSE /\ upPc' = "done"
            /\ ret' = Fail("upload failed after attempts", s.Retries, lastErr)
            /\ UNCHANGED delays
    /\ UNCHANGED <<s, fileReadable, uploader, attempt, requests, lastErr, blobRead>>
    /\ UNCHANGED notUpload

\* uploadWithRetries, lines 104-144: one request and the handling of its outcome
UploadSend ==
    /\ upPc = "send"
    /\ requests' = requests + 1
    /\ LET o == Answer(requests + 1)
           c == Classify(o)
       IN  \/ /\ c = "auth"
              /\ upPc' = "done"
              /\ ret' = Fail("authentication failed", o.status, NoError)
              /\ UNCHANGED <<attempt, lastErr>>
           \/ /\ c = "fatal"
              /\ upPc' = "done"
              /\ ret' = Fail("unexpected status code", o.status, NoError)
              /\ UNCHANGED <<attempt, lastErr>>
           \/ /\ c = "retry"
              /\ lastErr' = AttemptError(o, requests + 1)
              /\ attempt' = attempt + 1
              /\ upPc' = "loop"
              /\ UNCHANGED ret
           \/ /\ c = "success"
              /\ upPc' = "done"
              /\ ret' = [locator |-> Body, err |-> "none", code |-> o.status, wraps |-> NoError]
              /\ UNCHANGED <<attempt, lastErr>>
    /\ UNCHANGED <<s, fileReadable, uploader, delays, blobRead>>
    /\ UNCHANGED notUpload

NextUpload == UploadPrecheck \/ UploadLoop \/ UploadSend

SpecUpload == InitUpload /\ [][NextUpload]_vars

(***************************************************************************)
(* Metadata: Profiler.uploadProfile with the three Storage variants        *)
(***************************************************************************)
\* JSON documents a server may answer an upload with
JSONUpload == "{\"profile_id\":\"p1\",\"profile_url\":\"https://storage/profile123\",\"type\":\"cpu\"}"
JSONUrlOnly == "{\"profile_url\":\"https://storage/profile123\"}"
JSONEmpty == "{}"

\* what a 2xx answer to the upload may carry: the bare locator or a document
Bodies == {Body, JSONUpload, JSONUrlOnly, JSONEmpty}

\* FileStorage.Upload, lines 172-173: Directory joined with the temp file's base name
TargetPath ==
    [cpu |-> "/profiles/cpu.pprof", memory |-> "/profiles/memory.pprof",
     goroutine |-> "/profiles/goroutine.pprof", mutex |-> "/profiles/mutex.pprof",
     block |-> "/profiles/block.pprof"]

\* the locator a successful Storage.Upload returns
StorageUpload(st, k, body) ==
    IF st = "StdoutStorage" THEN "stdout"
    ELSE IF st = "FileStorage" THEN TargetPath[k]
    ELSE body

\* json.Unmarshal([]byte(text), &response) of uploadProfile, lines 199-206
Unmarshal(text) ==
    IF text = JSONUpload
    THEN [ok |-> TRUE, ProfileID |-> "p1", ProfileURL |-> Body, Type |-> "cpu"]
    ELSE IF text = JSONUrlOnly
    THEN [ok |-> TRUE, ProfileID |-> "", ProfileURL |-> Body, Type |-> ""]
    ELSE IF text = JSONEmpty
    THEN [ok |-> TRUE, ProfileID |-> "", ProfileURL |-> "", Type |-> ""]
    ELSE [ok |-> FALSE, ProfileID |-> "", ProfileURL |-> "", Type |-> ""]

\* uploadProfile, lines 213-224: the map literal, then the tags written over it
BuildMetadata(r) ==
    LET base == [profile_id |-> r.ProfileID,
                 profile_url |-> r.ProfileURL,
                 service |-> serviceName,
                 type |-> r.Type,
                 timestamp |-> ToString(now)]
    IN  [k \in DOMAIN base \cup DOMAIN tagSet |->
            IF k \in DOMAIN tagSet THEN tagSet[k] ELSE base[k]]

\* displayPprofData, lines 234-245: the Type line, decided by the file name
SummaryType ==
    [cpu |-> "CPU Profile", memory |-> "Memory/Heap Profile",
     goroutine |-> "Goroutine Profile", mutex |-> "Mutex Profile", block |-> "Block Profile"]

\* StdoutStorage.Upload: the PROFILE_DATA block;  OutputMetadata: the METADATA line
SummaryLine(k) == [tag |-> "PROFILE_DATA", type |-> SummaryType[k], json |-> NoMetadata]
MetadataLine(m) == [tag |-> "METADATA", type |-> "", json |-> m]

ServiceNames == {"integration-test-service", "svc"}

TagSets == {NoMetadata,
            [env |-> "testing"],
            [test |-> "integration", env |-> "testing"],
            [service |-> "billing"]}

Clock == {0, 1700000000}

\* the kinds collectProfile captures through uploadProfile, as enabled in the
\* stdout integration test and singly
TickKinds == {{profileTypeCPU, profileTypeMemory}, {profileTypeCPU}, {profileTypeMemory}}

\* a profiler New has built: OutputToStdout always comes with a StdoutStorage
ProfileInit ==
    /\ storage \in {"HTTPStorage", "FileStorage", "StdoutStorage"}
    /\ outputToStdout \in BOOLEAN
    /\ outputToStdout => storage = "StdoutStorage"
    /\ serviceName \in ServiceNames
    /\ tagSet \in TagSets
    /\ now \in Clock
    /\ pending \in TickKinds
    /\ profileType = profileTypeCPU
    /\ uploadResp = ""
    /\ metadata = NoMetadata
    /\ stdout = <<>>
    /\ posted = <<>>
    /\ prPc = "idle"
    /\ prErr = "none"
    /\ mdPaths = {}
    /\ uploads = 0

InitProfile == LifeParked /\ UploadIdle /\ ProfileInit /\ ConfigIdle /\ DispatchIdle

\* collectProfile: the capture of kind k is written and uploadProfile is called
ProfileCollect(k) ==
    /\ prPc = "idle"
    /\ k \in pending
    /\ pending' = pending \ {k}
    /\ profileType' = k
    /\ uploadResp' = ""
    /\ metadata' = NoMetadata
    /\ prErr' = "none"
    /\ mdPaths' = {}
    /\ uploads' = 0
    /\ prPc' = "upload"
    /\ UNCHANGED <<storage, outputToStdout, serviceName, tagSet, now, stdout, posted>>
    /\ UNCHANGED notProfile

\* uploadProfile, lines 194-197: Storage.Upload
ProfileStore ==
    /\ prPc = "upload"
    /\ uploads' = uploads + 1
    /\ \E ok \in BOOLEAN, body \in Bodies :
         IF ok
         THEN /\ uploadResp' = StorageUpload(storage, profileType, body)
              /\ stdout' = IF storage = "StdoutStorage"
                           THEN Append(stdout, SummaryLine(profileType))
                           ELSE stdout
              /\ prPc' = "parse"
              /\ UNCHANGED prErr
         ELSE /\ prErr' = "failed to upload profile"
              /\ prPc' = "done"
              /\ UNCHANGED <<uploadResp, stdout>>
    /\ UNCHANGED <<storage, outputToStdout, serviceName, tagSet, now, pending, profileType,
                   metadata, posted, mdPaths>>
    /\ UNCHANGED notProfile

\* uploadProfile, lines 199-224: the answer is parsed and the metadata map built
ProfileParse ==
    /\ prPc = "parse"
    /\ LET r == Unmarshal(uploadResp)
       IN  IF r.ok
           THEN /\ metadata' = BuildMetadata(r)
                /\ prPc' = "dispatch"
                /\ UNCHANGED prErr
           ELSE /\ prErr' = "failed to parse upload response"
                /\ prPc' = "done"
                /\ UNCHANGED metadata
    /\ UNCHANGED <<storage, outputToStdout, serviceName, tagSet, now, pending, profileType,
                   uploadResp, stdout, posted, mdPaths, uploads>>
    /\ UNCHANGED notProfile

\* uploadProfile, lines 235-237: a failed sendMetadata makes uploadProfile return
AfterMetadataErrorReupload == "upload"
AfterMetadataError == "done"

\* uploadProfile, lines 227-239: the metadata goes to stdout or to the server
ProfileDispatch ==
    /\ prPc = "dispatch"
    /\ IF outputToStdout
       THEN /\ stdout' = IF storage = "StdoutStorage"
                         THEN Append(stdout, MetadataLine(metadata))
                         ELSE stdout
            /\ mdPaths' = IF storage = "StdoutStorage" THEN mdPaths \cup {"stdout"} ELSE mdPaths
            /\ prPc' = "done"
            /\ UNCHANGED <<posted, prErr>>
       ELSE \E ok \in BOOLEAN :
              /\ posted' = IF ok THEN Append(posted, metadata) ELSE posted
              /\ prErr' = IF ok THEN "none" ELSE "failed to send metadata"
              /\ mdPaths' = mdPaths \cup {"network"}
              /\ prPc' = IF ok THEN "done" ELSE AfterMetadataError
              /\ UNCHANGED stdout
    /\ UNCHANGED <<storage, outputToStdout, serviceName, tagSet, now, pending, profileType,
                   uploadResp, metadata, uploads>>
    /\ UNCHANGED notProfile

\* uploadProfile has returned; collectProfiles goes on to the next tick
ProfileReturn ==
    /\ prPc = "done"
    /\ prPc' = "idle"
    /\ UNCHANGED <<storage, outputToStdout, serviceName, tagSet, now, pending, profileType,
                   uploadResp, metadata, stdout, posted, prErr, mdPaths, uploads>>
    /\ UNCHANGED notProfile

NextProfile ==
    \/ \E k \in Kinds : ProfileCollect(k)
    \/ ProfileStore
    \/ ProfileParse
    \/ ProfileDispatch
    \/ ProfileReturn

SpecProfile == InitProfile /\ [][NextProfile]_vars

(***************************************************************************)
(* Configuration: Config.validate, New and newProfiler                     *)
(***************************************************************************)
\* config.go, lines 36-50: the first required field found missing
RequiredFieldMissing(c) ==
    IF c.APIKey = "" THEN "APIKey is required"
    ELSE IF c.IngestURL = "" THEN "IngestURL is required"
    ELSE IF c.Storage = "nil" THEN "Storage is required"
    ELSE IF c.ServiceName = "" THEN "ServiceName is required"
    ELSE "none"

\* config.go, lines 52-70: the test that makes validate substitute a default
NeedsDefaultZeroOnly(v) == v = 0
NeedsDefault(v) == v <= 0

\* config.go, lines 72-75 and pprofio.go, lines 45-50: the kinds enabled by default
DefaultKindsCPUOnly == {profileTypeCPU}
DefaultKinds == {profileTypeCPU, profileTypeMemory}

\* config.go, lines 52-75: the defaults validate writes into the Config
WithDefaults(c) ==
    [c EXCEPT !.SampleRate = IF NeedsDefault(@) THEN DefaultSampleRate ELSE @,
              !.ProfileDuration = IF NeedsDefault(@) THEN DefaultProfileDuration ELSE @,
              !.MemProfileRate = IF NeedsDefault(@) THEN DefaultMemProfileRate ELSE @,
              !.MutexFraction = IF NeedsDefault(@) THEN DefaultMutexFraction ELSE @,
              !.BlockProfileRate = IF NeedsDefault(@) THEN DefaultBlockProfileRate ELSE @,
              !.Enabled = IF @ = {} THEN DefaultKinds ELSE @]

\* Config.validate: the error it returns and the Config it leaves behind
Validate(c) ==
    IF RequiredFieldMissing(c) # "none"
    THEN [err |-> RequiredFieldMissing(c), cfg |-> c]
    ELSE [err |-> "none", cfg |-> WithDefaults(c)]

\* New, lines 20-50: what New does to its copy before newProfiler validates it
NewPrepared(c) ==
    [c EXCEPT !.SampleRate = IF @ = 0 THEN DefaultSampleRate ELSE @,
              !.ProfileDuration = IF @ = 0 THEN DefaultProfileDuration ELSE @,
              !.MemProfileRate = IF @ = 0 THEN DefaultMemProfileRate ELSE @,
              !.MutexFraction = IF @ = 0 THEN DefaultMutexFraction ELSE @,
              !.BlockProfileRate = IF @ = 0 THEN DefaultBlockProfileRate ELSE @,
              !.Storage = IF c.OutputToStdout THEN "StdoutStorage"
                          ELSE IF @ = "nil" /\ c.APIKey # "" /\ c.IngestURL # ""
                          THEN "HTTPStorage"
                          ELSE @,
              !.Enabled = IF @ = {} THEN DefaultKinds ELSE @]

\* New and newProfiler: the error, or the config of the Profiler returned
NewProfiler(c) ==
    LET r == Validate(NewPrepared(c))
    IN  [state |-> "returned", err |-> r.err, cfg |-> r.cfg]

\* values a caller writes into a duration or rate field: negative, unset, positive
FieldValues == {-1, 0, 7}

ConfigInputs ==
    [APIKey : {"", "key"},
     IngestURL : {"", "https://ingest"},
     ServiceName : {"", "svc"},
     Storage : {"nil", "HTTPStorage", "FileStorage"},
     OutputToStdout : BOOLEAN,
     SampleRate : FieldValues,
     ProfileDuration : FieldValues,
     MemProfileRate : FieldValues,
     MutexFraction : FieldValues,
     BlockProfileRate : FieldValues,
     Enabled : {e \in SUBSET Kinds : Cardinality(e) <= MaxEnabled}]

ConfigInit ==
    /\ cfgIn \in ConfigInputs
    /\ cfg = cfgIn
    /\ vErr = "none"
    /\ vRuns = 0
    /\ prevCfg = cfgIn
    /\ prevErr = "none"
    /\ made = NotMade

InitConfig == LifeParked /\ UploadIdle /\ ProfileIdle /\ ConfigInit /\ DispatchIdle

\* the caller runs cfg.validate() on its Config value
ConfigValidate ==
    /\ made = NotMade
    /\ vRuns < MaxValidations
    /\ vRuns' = vRuns + 1
    /\ prevCfg' = cfg
    /\ prevErr' = vErr
    /\ cfg' = Validate(cfg).cfg
    /\ vErr' = Validate(cfg).err
    /\ UNCHANGED <<cfgIn, made>>
    /\ UNCHANGED notConfig

\* the caller passes its Config value to New
ConfigNew ==
    /\ made = NotMade
    /\ vRuns = 0
    /\ made' = NewProfiler(cfgIn)
    /\ UNCHANGED <<cfgIn, cfg, vErr, vRuns, prevCfg, prevErr>>
    /\ UNCHANGED notConfig

NextConfig == ConfigValidate \/ ConfigNew

SpecConfig == InitConfig /\ [][NextConfig]_vars

(***************************************************************************)
(* Span intake: StartSpan against spanCh, with the aggregator of a         *)
(* custom-only Profiler as the only receiver                               *)
(***************************************************************************)
InitIntake ==
    /\ LifeBegin(MaxBurst)
    /\ config.Enabled = {profileTypeCustom}
    /\ runtime.MemProfileRate = RuntimeMemProfileRate
    /\ UploadIdle
    /\ ProfileIdle
    /\ ConfigIdle
    /\ DispatchIdle

NextIntake ==
    \/ \E c \in Callers, x \in Ctxs : CallStart(c, x)
    \/ \E c \in Callers : StartRun(c)
    \/ \E t \in tasks : AggReceive(t)
    \/ \E t \in tasks : AggFlush(t)
    \/ \E w \in BOOLEAN : StartSpan(w)
    \/ \E i \in DOMAIN spanState : SpanEnd(i)

SpecIntake == InitIntake /\ [][NextIntake]_vars

(***************************************************************************)
(* Metadata dispatch: metadataClient.sendMetadata and sendRequest, run     *)
(* after an Upload against the same sequence of endpoint answers           *)
(***************************************************************************)
MetadataClients ==
    {[scheme |-> "https", localhost |-> FALSE, retries |-> MetadataRetries],
     [scheme |-> "http", localhost |-> TRUE, retries |-> MetadataRetries],
     [scheme |-> "http", localhost |-> FALSE, retries |-> MetadataRetries]}

\* sendMetadata, line 48: the loop condition
MetadataLoopContinues(a) == a < mc.retries

\* sendMetadata, line 52: the sleep after failed attempt a, in ms
MetadataBackoff(a) == (2 ^ a) * 100

\* sendRequest, lines 74-82: whether the attempt is an error; the body is not read
RequestFailed(o) == o.err = "transport" \/ o.status < 200 \/ o.status >= 300

\* the error sendRequest returns for a failed attempt
RequestError(o, n) ==
    [msg |-> IF o.err = "transport" THEN "request failed" ELSE "unexpected status code",
     code |-> o.status, attempt |-> n]

\* an Upload with the budget of NewHTTPStorage that passes its checks, and a
\* metadata client for the same endpoint
DispatchInit ==
    /\ UploadInit
    /\ s.ctor = "NewHTTPStorage"
    /\ s.URL = "https"
    /\ fileReadable
    /\ mc \in MetadataClients
    /\ mdPc = "check"
    /\ mdAttempt = 0
    /\ mdRequests = 0
    /\ mdDelays = <<>>
    /\ mdLastErr = NoError
    /\ mdRet = [err |-> "none", wraps |-> NoError]

InitDispatch == LifeParked /\ DispatchInit /\ ProfileIdle /\ ConfigIdle

\* sendMetadata, lines 32-48: the URL check and the first loop test
MetadataCheck ==
    /\ upPc = "done"
    /\ mdPc = "check"
    /\ IF mc.scheme # "https" /\ ~mc.localhost
       THEN /\ mdPc' = "done"
            /\ mdRet' = [err |-> "HTTPS is required for ingest URL", wraps |-> NoError]
       ELSE IF MetadataLoopContinues(mdAttempt)
       THEN mdPc' = "send" /\ UNCHANGED mdRet
       ELSE /\ mdPc' = "done"
            /\ mdRet' = [err |-> "failed to send metadata after attempts", wraps |-> mdLastErr]
    /\ UNCHANGED <<mc, mdAttempt, mdRequests, mdDelays, mdLastErr>>
    /\ UNCHANGED notDispatch

\* sendMetadata, line 49, and sendRequest: one request and its result
MetadataSend ==
    /\ mdPc = "send"
    /\ mdRequests' = mdRequests + 1
    /\ LET o == Answer(mdRequests + 1)
       IN  IF RequestFailed(o)
           THEN /\ mdLastErr' = RequestError(o, mdRequests + 1)
                /\ mdPc' = "sleep"
                /\ UNCHANGED mdRet
           ELSE /\ mdPc' = "done"
                /\ mdRet' = [err |-> "none", wraps |-> NoError]
                /\ UNCHANGED mdLastErr
    /\ UNCHANGED <<mc, mdAttempt, mdDelays>>
    /\ UNCHANGED notDispatch

\* sendMetadata, lines 51-54 and 59: the sleep after a failure, the next loop
\* test and the exhaustion error
MetadataSleep ==
    /\ mdPc = "sleep"
    /\ mdDelays' = Append(mdDelays, MetadataBackoff(mdAttempt))
    /\ mdAttempt' = mdAttempt + 1
    /\ IF MetadataLoopContinues(mdAttempt + 1)
       THEN mdPc' = "send" /\ UNCHANGED mdRet
       ELSE /\ mdPc' = "done"
            /\ mdRet' = [err |-> "failed to send metadata after attempts", wraps |-> mdLastErr]
    /\ UNCHANGED <<mc, mdRequests, mdLastErr>>
    /\ UNCHANGED notDispatch

NextDispatch ==
    \/ UploadPrecheck
    \/ UploadLoop
    \/ UploadSend
    \/ MetadataCheck
    \/ MetadataSend
    \/ MetadataSleep

SpecDispatch == InitDispatch /\ [][NextDispatch]_vars
(***************************************************************************)
(* Start, Stop and the goroutines of a Profiler whose application creates  *)
(* no span                                                                 *)
(***************************************************************************)
InitLifecycle == LifeBegin(0) /\ UploadIdle /\ ProfileIdle /\ ConfigIdle /\ DispatchIdle

NextLifecycle ==
    \/ \E c \in Callers, x \in Ctxs : CallStart(c, x)
    \/ \E c \in Callers : StartRun(c)
    \/ \E c \in Callers : CallStop(c)
    \/ \E c \in Callers : StopRun(c)
    \/ \E c \in Callers : StopJoin(c)
    \/ \E x \in Ctxs : CancelCtx(x)
    \/ \E t \in tasks : TaskCapture(t)
    \/ \E t \in tasks, r \in WaitReasons : TaskCPUStop(t, r)
    \/ \E t \in tasks : TaskUpload(t)
    \/ \E t \in tasks : TaskLogError(t)
    \/ \E t \in tasks : TaskTick(t)
    \/ \E t \in tasks : TaskExit(t)

SpecLifecycle == InitLifecycle /\ [][NextLifecycle]_vars

(***************************************************************************)
(* Fairness: every goroutine that can take a step eventually takes it; a   *)
(* select with several ready cases picks each of them eventually.          *)
(***************************************************************************)
KindStep(k) ==
    \E t \in tasks : t.kind = k /\ (TaskCapture(t) \/ TaskCPUStop(t, "duration") \/ TaskUpload(t)
                                  \/ TaskLogError(t))

KindExit(k) == \E t \in tasks : t.kind = k /\ TaskExit(t)

Fairness ==
    /\ \A c \in Callers : WF_vars(StartRun(c)) /\ WF_vars(StopRun(c)) /\ WF_vars(StopJoin(c))
    /\ \A k \in Kinds : WF_vars(KindStep(k)) /\ SF_vars(KindExit(k))

FairSpec == Spec /\ Fairness

(***************************************************************************)
(* Properties                                                              *)
(***************************************************************************)
StopInProgress == \E c \in Callers : pc[c] = "stop_join"

\* C1: a Start that runs while the profiler is running returns the
\* already-started error and launches no goroutine, keeps the flag set and
\* leaves the saved and the applied runtime knobs as they were.
StartWhileRunningRejected ==
    [][\A c \in Callers :
         (pc[c] = "start" /\ pc'[c] = "idle" /\ initialized)
         => /\ result'[c] = "already started"
            /\ UNCHANGED <<tasks, wg, initialized, original, runtime, stopCh, gen>>]_vars

StartWhileRunningSeen ==
    \E c \in Callers : result[c] = "already started" /\ initialized /\ tasks # {}

\* C2: after a completed Stop, the goroutines of the next successful Start
\* find an unfired stop signal: while the profiler is running, no Stop is in
\* progress and no context is cancelled, every enabled kind has its
\* goroutine of the latest Start.
RestartRearmsSignal ==
    (gen >= 2 /\ initialized /\ ~StopInProgress /\ \A x \in Ctxs : ~ctxDone[x])
    => /\ stopCh = "open"
       /\ \A k \in config.Enabled : \E t \in tasks : t.kind = k /\ t.gen = gen

\* C3: a Stop that runs while the profiler is not running returns at once
\* and changes neither the stop signal, the lock, the wait group, the
\* goroutines, the knobs nor the flag.
StopWhenStoppedIsNoop ==
    [][\A c \in Callers :
         (pc[c] = "stop" /\ pc'[c] # "stop" /\ ~initialized)
         => /\ pc'[c] = "idle"
            /\ result'[c] = "noop"
            /\ UNCHANGED <<stopCh, mu, wg, tasks, runtime, original, initialized>>]_vars

RepeatedStopSeen ==
    /\ gen >= 1
    /\ ~initialized
    /\ \A c \in Callers : result[c] = "noop"

\* C4: Stop returns from a running profiler, and the flag is cleared, only
\* when every goroutine launched by start has exited.
StopJoinsTasks ==
    [][/\ (initialized /\ ~initialized') => (tasks = {} /\ StopInProgress)
       /\ \A c \in Callers :
            (pc[c] = "stop_join" /\ pc'[c] = "idle")
            => (tasks = {} /\ tasks' = {} /\ ~initialized' /\ result'[c] = "stopped")]_vars

StopJoinedSeen ==
    /\ profileTypeCustom \in config.Enabled
    /\ Cardinality(config.Enabled) = 2
    /\ \E c \in Callers : result[c] = "stopped" /\ ~initialized /\ gen >= 1 /\ tasks = {}

\* C5: every call of Stop eventually returns.
StopEventuallyReturns ==
    \A c \in Callers : (pc[c] \in {"stop", "stop_join"}) ~> (pc[c] = "idle")

\* until a Stop takes effect: at most one Start has succeeded, none has failed
\* before one succeeded, and there is one goroutine per enabled kind
OneStartUntilStop ==
    stopCh = "open"
    => /\ gen <= 1
       /\ (startFailed >= 1 => gen = 1)
       /\ (\A x \in Ctxs : ~ctxDone[x])
          => /\ \A k \in Kinds :
                  Cardinality({t \in tasks : t.kind = k})
                    = IF gen = 1 /\ k \in config.Enabled THEN 1 ELSE 0
             /\ wg = IF gen = 1 THEN Cardinality(config.Enabled) ELSE 0

\* a Start succeeds only on a profiler that is not running, marks it running
\* and adds one goroutine per enabled kind; a Start fails only on a running one
StartTransition ==
    /\ gen' # gen
       => /\ ~initialized /\ initialized'
          /\ gen' = gen + 1
          /\ tasks \subseteq tasks'
          /\ \A k \in Kinds :
               Cardinality({t \in tasks' \ tasks : t.kind = k})
                 = IF k \in config.Enabled THEN 1 ELSE 0
          /\ wg' = wg + Cardinality(config.Enabled)
    /\ startFailed' # startFailed => (initialized /\ initialized' /\ tasks' = tasks)

\* C6: of the Start calls made on a profiler that is not running, in any
\* interleaving, exactly one succeeds and the others get the already-started
\* error, and one goroutine per enabled kind is launched in total: until a
\* Stop takes effect there is one success, no failure without a success, and
\* one goroutine per enabled kind; and at any time a Start succeeds only on
\* a profiler that is not running, marks it running and adds exactly one
\* goroutine per enabled kind, while a Start fails only on a running one.
ConcurrentStartsOneWinner == []OneStartUntilStop /\ [][StartTransition]_vars

ConcurrentStartsSeen ==
    /\ stopCh = "open"
    /\ calls = 2
    /\ \E c, d \in Callers : result[c] = "ok" /\ result[d] = "already started"
    /\ Cardinality(tasks) = 2

\* C18: once a Start has been followed by Stop, the host runtime's knobs
\* (memory sample rate, mutex fraction, block rate) have the values they had
\* immediately before that Start.
KnobsRestoredAfterStop ==
    (gen >= 1 /\ ~initialized) => runtime = beforeStart

Collectors == {t \in tasks : t.kind # profileTypeCustom}

SameTask(t, u) == u.gen = t.gen /\ u.kind = t.kind

\* a collector is always at one of the positions of its loop
CollectorInLoop ==
    \A t \in Collectors : t.pc \in {"collect", "cpu", "upload", "failed", "select"}

\* a collector at its select can take the tick
TickCollectable == \A t \in Collectors : t.pc = "select" => ENABLED TaskTick(t)

\* a collector disappears only from its select with stopCh closed or its
\* context done, and a failed tick takes it to the select
CollectorStep ==
    \A t \in Collectors :
        /\ (\A u \in tasks' : ~SameTask(t, u))
           => (t.pc = "select" /\ (stopCh = "closed" \/ ctxDone[t.ctx]))
        /\ (t.pc = "failed" /\ t \notin tasks')
           => [t EXCEPT !.pc = "select"] \in tasks'

\* C19: a collection goroutine leaves its loop only because stopCh is closed
\* or its context is done; a failed capture, upload or metadata call leaves
\* it in the loop, at the select where the next tick is collected.
SchedulerExitsOnlyOnSignal ==
    [](CollectorInLoop /\ TickCollectable) /\ [][CollectorStep]_vars

TickFailureSeen ==
    \E t \in Collectors :
        t.pc = "failed" /\ stopCh = "open" /\ ~ctxDone[t.ctx] /\ initialized

Occurrences(q, i) == Cardinality({j \in 1..Len(q) : q[j] = i})

\* C20: every span accepted by spanCh is recorded exactly once: it is still
\* in the channel, or in the map of one aggregator that has released
\* spansLock and is back at its select (where the next flush takes it), or
\* in exactly one snapshot handed to processSpans.
SpanAppendsNotLost ==
    \A i \in spanQueued :
        LET inCh == Occurrences(spanCh, i)
            holders == {t \in tasks : Occurrences(t.spans, i) > 0}
            snaps == {k \in 1..Len(snapshots) : Occurrences(snapshots[k], i) > 0}
        IN  \/ inCh = 1 /\ holders = {} /\ snaps = {}
            \/ /\ inCh = 0 /\ snaps = {}
               /\ Cardinality(holders) = 1
               /\ \A t \in holders :
                    Occurrences(t.spans, i) = 1 /\ t.pc = "select" /\ ~t.spansLock
            \/ /\ inCh = 0 /\ holders = {}
               /\ Cardinality(snaps) = 1
               /\ \A k \in snaps : Occurrences(snapshots[k], i) = 1

PrecheckErrors == {"URL and APIKey are required", "HTTPS is required for secure uploads",
                   "failed to open file"}

\* uploadWithRetries was entered and has returned
Delivered == upPc = "done" /\ ret.err \notin PrecheckErrors

FailThenSucceed(n) ==
    /\ n <= Len(uploader)
    /\ \A i \in 1..(n - 1) : uploader[i] = Resp(500)
    /\ uploader[n] = Resp(200)

StrictlyIncreasing(d) == \A i \in 1..(Len(d) - 1) : d[i] < d[i + 1]

\* C7: when the server answers 500 to the first N-1 requests and succeeds on
\* request N (1 <= N <= Retries), the pipeline returns the locator after
\* exactly N requests, and the N-1 sleeps between them are strictly increasing.
UploadSucceedsOnNth ==
    \A n \in 1..s.Retries :
        (Delivered /\ FailThenSucceed(n))
        => /\ ret.err = "none"
           /\ ret.locator = Body
           /\ requests = n
           /\ Len(delays) = n - 1
           /\ StrictlyIncreasing(delays)

UploadSucceedsOnThirdSeen ==
    /\ Delivered
    /\ FailThenSucceed(3)
    /\ requests = 3
    /\ Len(delays) = 2
    /\ ret.locator = Body

\* C8: once a request has been answered with 401 or 403 the pipeline has
\* returned the authentication error and sends no further request, whatever
\* is left of the budget.
AuthFailureIsFatal ==
    \A i \in 1..requests :
        (Answer(i).err = "none" /\ Answer(i).status \in {401, 403})
        => /\ upPc = "done"
           /\ requests = i
           /\ ret.err = "authentication failed"
           /\ ret.code = Answer(i).status
           /\ ret.locator = ""

AuthFailureOnFirstSeen ==
    /\ Delivered
    /\ s.Retries = 3
    /\ uploader[1] = Resp(401)
    /\ requests = 1
    /\ ret.err = "authentication failed"

\* C9: with a budget R >= 1 and a server that always answers 503 the
\* pipeline sends exactly R requests and fails with the exhaustion error
\* wrapping the error of request R.
AlwaysFailingExhaustsBudget ==
    (Delivered /\ s.Retries >= 1 /\ \A i \in DOMAIN uploader : uploader[i] = Resp(503))
    => /\ requests = s.Retries
       /\ ret.err = "upload failed after attempts"
       /\ ret.code = s.Retries
       /\ ret.wraps = [msg |-> "server error", code |-> 503, attempt |-> s.Retries]

AlwaysFailingSeen ==
    /\ Delivered
    /\ s.ctor = "NewHTTPStorage"
    /\ \A i \in DOMAIN uploader : uploader[i] = Resp(503)
    /\ requests = 3
    /\ ret.wraps.attempt = 3

\* C10: a backend on which no retry budget was configured (NewHTTPStorage,
\* the backend of DefaultConfig) has a budget of 3 requests: an Upload that
\* passes its checks sends at least one request, and three when every
\* request fails with a retryable outcome.
DefaultBudgetIsThree ==
    (Delivered /\ s.ctor \in {"NewHTTPStorage", "DefaultConfig"})
    => /\ requests >= 1
       /\ (\A i \in DOMAIN uploader : Classify(uploader[i]) = "retry")
          => requests = NewHTTPStorageRetries

\* request i was retried: another request followed it, or the loop goes on
\* with i attempts used, or the budget ended with request i
WasRetried(i) ==
    \/ requests > i
    \/ /\ requests = i
       /\ upPc \in {"loop", "send"}
       /\ attempt = i
       /\ lastErr.attempt = i
    \/ /\ requests = i
       /\ upPc = "done"
       /\ i = s.Retries
       /\ ret.err = "upload failed after attempts"
       /\ ret.wraps.attempt = i

EndedUploadAt(i, e) ==
    /\ upPc = "done"
    /\ requests = i
    /\ ret.err = e
    /\ ret.code = Answer(i).status

\* C11: of every request sent, a readable 2xx answer ends the upload with the
\* locator; 401/403 ends it with the authentication error; 429, 5xx and a
\* transport failure are retried and use up one attempt of the budget; any
\* other status (3xx, 400, 404) ends it with the unexpected-status error;
\* never more requests than the budget are sent.
AttemptOutcomeClassified ==
    /\ requests <= s.Retries
    /\ upPc \in {"loop", "send"} => attempt = requests
    /\ \A i \in 1..requests :
        LET o == Answer(i)
            code == o.status
        IN  /\ (o.err = "none" /\ code \in 200..299)
               => EndedUploadAt(i, "none") /\ ret.locator = Body
            /\ (o.err = "none" /\ code \in {401, 403})
               => EndedUploadAt(i, "authentication failed") /\ ret.locator = ""
            /\ (o.err = "transport" \/ (o.err = "none" /\ (code = 429 \/ code \in 500..599)))
               => WasRetried(i)
            /\ (o.err = "none" /\ code \notin 200..299 /\ code \notin {401, 403, 429}
                /\ code \notin 500..599)
               => EndedUploadAt(i, "unexpected status code") /\ ret.locator = ""

RedirectAfterTransportFailureSeen ==
    /\ Delivered
    /\ s.Retries = 3
    /\ uploader[1] = TransportFailure
    /\ uploader[2] = Resp(302)
    /\ requests = 2
    /\ ret.err = "unexpected status code"

\* uploadProfile has returned and its Storage.Upload had succeeded
Uploaded == prPc = "done" /\ prErr # "failed to upload profile"

\* C12: once uploadProfile has returned after a successful Storage.Upload, the
\* metadata record exists and its profile_url is exactly the string that
\* Upload returned, for the network, the file and the stdout backend.
MetadataCarriesLocator ==
    Uploaded => /\ "profile_url" \in DOMAIN metadata
                /\ metadata["profile_url"] = uploadResp

\* C13: a metadata record that was built has the configured service name, the
\* kind of the capturing task as type, a non-empty timestamp, every
\* configured tag, and no profile_id key.
MetadataRecordShape ==
    (prPc \in {"dispatch", "done"} /\ metadata # NoMetadata)
    => /\ metadata["service"] = serviceName
       /\ metadata["type"] = profileType
       /\ metadata["timestamp"] # ""
       /\ \A k \in DOMAIN tagSet : k \in DOMAIN metadata /\ metadata[k] = tagSet[k]
       /\ "profile_id" \notin DOMAIN metadata

\* C14: in stdout mode, when the tick of every enabled kind has been uploaded,
\* stdout holds a blob summary for each enabled kind and a METADATA line with
\* the configured service name and all configured tags.
StdoutModeEndToEnd ==
    (outputToStdout /\ pending = {} /\ Uploaded)
    => /\ \E i \in 1..Len(stdout) :
            stdout[i].tag = "PROFILE_DATA" /\ stdout[i].type = SummaryType[profileType]
       /\ \E i \in 1..Len(stdout) :
            /\ stdout[i].tag = "METADATA"
            /\ "service" \in DOMAIN stdout[i].json
            /\ stdout[i].json["service"] = serviceName
            /\ \A k \in DOMAIN tagSet :
                 k \in DOMAIN stdout[i].json /\ stdout[i].json[k] = tagSet[k]

\* the Config selects the network output: neither stdout nor a local directory
NetworkOutput(c) == ~c.OutputToStdout /\ c.Storage # "FileStorage"

IdentityMissing(c) == c.APIKey = "" \/ c.IngestURL = "" \/ c.ServiceName = ""

\* C15: validate, and New, return an error exactly when the network output is
\* selected and the API key, the ingest URL or the service name is missing;
\* with stdout or a local directory as output they succeed without the API
\* key and the ingest URL.
ErrorOnlyForNetworkIdentity ==
    /\ vRuns >= 1 => (vErr # "none" <=> (NetworkOutput(cfgIn) /\ IdentityMissing(cfgIn)))
    /\ made # NotMade
       => (made.err # "none" <=> (NetworkOutput(cfgIn) /\ IdentityMissing(cfgIn)))

KindsAfterValidation(c) ==
    IF cfgIn.Enabled = {} THEN c.Enabled = {profileTypeCPU, profileTypeMemory}
    ELSE c.Enabled = cfgIn.Enabled

\* C16 as stated: after validate, a Config that enabled no kind has exactly
\* CPU and memory enabled and any other Config has its kind flags unchanged.
KindDefaultForEveryConfig == vRuns >= 1 => KindsAfterValidation(cfg)

\* C16: for every Config that validate accepts, and for the Profiler of every
\* New that succeeds, a Config that enabled no kind has exactly CPU and memory
\* enabled and any other has its kind flags unchanged; a Config that validate
\* rejects keeps its flags.
KindDefaultForAcceptedConfig ==
    /\ (vRuns >= 1 /\ vErr = "none") => KindsAfterValidation(cfg)
    /\ (vRuns >= 1 /\ vErr # "none") => cfg.Enabled = cfgIn.Enabled
    /\ (made # NotMade /\ made.err = "none") => KindsAfterValidation(made.cfg)

KindDefaultSeen ==
    /\ vRuns >= 1
    /\ vErr = "none"
    /\ cfgIn.Enabled = {}
    /\ cfg.Enabled = {profileTypeCPU, profileTypeMemory}

Substituted(in, out, default) == out = (IF in <= 0 THEN default ELSE in)

FieldsAfterValidation(c) ==
    /\ Substituted(cfgIn.SampleRate, c.SampleRate, DefaultSampleRate)
    /\ Substituted(cfgIn.ProfileDuration, c.ProfileDuration, DefaultProfileDuration)
    /\ Substituted(cfgIn.MemProfileRate, c.MemProfileRate, DefaultMemProfileRate)
    /\ Substituted(cfgIn.MutexFraction, c.MutexFraction, DefaultMutexFraction)
    /\ Substituted(cfgIn.BlockProfileRate, c.BlockProfileRate, DefaultBlockProfileRate)

\* a second validate changed no field and returned what the first returned
Idempotent == vRuns >= 2 => (cfg = prevCfg /\ vErr = prevErr)

\* C17 as stated: after validate every non-positive interval, duration and
\* rate holds its default (60, 10, 4096, 5, 100), and validate is idempotent.
DefaultsForEveryConfig == (vRuns >= 1 => FieldsAfterValidation(cfg)) /\ Idempotent

\* C17: for every Config that validate accepts, every non-positive interval,
\* duration and rate holds its default (60, 10, 4096, 5, 100) afterwards and
\* every positive one is kept; for every Config, accepted or rejected, a
\* second validate changes no field and returns the same result.
DefaultsForAcceptedConfig ==
    /\ (vRuns >= 1 /\ vErr = "none") => FieldsAfterValidation(cfg)
    /\ Idempotent

DefaultsSubstitutedTwiceSeen ==
    /\ vRuns = 2
    /\ vErr = "none"
    /\ cfgIn.SampleRate = -1
    /\ cfgIn.MutexFraction = 0
    /\ cfgIn.BlockProfileRate = 7
    /\ cfg.SampleRate = DefaultSampleRate
    /\ cfg.MutexFraction = DefaultMutexFraction
    /\ cfg.BlockProfileRate = 7
    /\ cfg = prevCfg

IntakeBounded == Len(spanCh) <= SpanChCap

\* a span that can still be started can be started now, whatever spanCh holds
StartSpanNeverBlocks == nextSpan \in DOMAIN spanState => ENABLED StartSpan(TRUE)

\* a StartSpan that finds spanCh at its capacity leaves it as it is
FullQueueDiscards ==
    (nextSpan' # nextSpan /\ Len(spanCh) >= SpanChCap)
    => /\ spanCh' = spanCh
       /\ spanQueued' = spanQueued

\* C21: spanCh never holds more than its capacity, StartSpan can always
\* return, and a StartSpan that finds spanCh full discards its span.
SpanIntakeDropsWhenFull ==
    [](IntakeBounded /\ StartSpanNeverBlocks) /\ [][FullQueueDiscards]_vars

SpanDroppedSeen ==
    /\ spanDropped # {}
    /\ Len(spanCh) = SpanChCap
    /\ \A i \in spanDropped : spanState[i] # "none" /\ i \notin spanQueued

\* C22: when the destination of an HTTPStorage is not https and Env is not
\* "local", Upload has returned the HTTPS error without sending a request and
\* without opening the blob, whether or not the blob could have been read.
InsecureUploadRefusedEarly ==
    (upPc \notin {"idle", "precheck"} /\ s.URL = "http" /\ s.APIKey # "" /\ s.Env # "local")
    => /\ upPc = "done"
       /\ ret.err = "HTTPS is required for secure uploads"
       /\ ret.locator = ""
       /\ requests = 0
       /\ ~blobRead

InsecureUploadRefusedSeen ==
    /\ upPc = "done"
    /\ s.URL = "http"
    /\ s.Env = ""
    /\ s.Retries = 3
    /\ ~fileReadable
    /\ ret.err = "HTTPS is required for secure uploads"
    /\ requests = 0

\* the collectors that the step launches
LaunchedNow == {u \in tasks' : u.kind # profileTypeCustom /\ \A t \in tasks : ~SameTask(t, u)}

\* a launched collector starts with a capture, and a collector gets to a
\* capture only by being launched or by taking a tick at its select
CaptureOnLaunchAndTick ==
    /\ \A u \in LaunchedNow : u.pc = "collect"
    /\ \A u \in tasks' :
         (u.kind # profileTypeCustom /\ u.pc = "collect" /\ u \notin tasks)
         => \/ u \in LaunchedNow
            \/ \E t \in tasks : SameTask(t, u) /\ t.pc = "select"

\* a collector at its first or a later capture point does capture next
CaptureNotSkipped ==
    \A t \in Collectors :
        t.pc = "collect"
        => /\ \E u \in tasks' : SameTask(t, u)
           /\ \A u \in tasks' : SameTask(t, u) => u.pc \in {"collect", "cpu", "upload", "failed"}

\* C26: a collector goroutine starts at a capture, without waiting for a tick
\* or looking at the stop signal first, and afterwards it captures once for
\* every tick it receives at its select and at no other time.
FirstCaptureImmediate ==
    [][CaptureOnLaunchAndTick /\ CaptureNotSkipped]_vars

FirstCaptureSeen ==
    /\ gen = 2
    /\ stopCh = "closed"
    /\ Collectors # {}
    /\ \A t \in Collectors : t.gen = 2 /\ t.pc = "collect"

TickInFlight(t) == t.pc \in {"collect", "cpu", "upload", "failed"}

\* a collector whose tick is in flight does not begin another capture
NoSecondTick ==
    \A t \in Collectors :
        TickInFlight(t) /\ t.pc # "collect"
        => \A u \in tasks' : SameTask(t, u) => u.pc # "collect"

\* every goroutine has one position
OnePosition == \A t, u \in tasks : SameTask(t, u) => t = u

\* C28: a collector has at most one tick in flight: while the capture, the
\* upload or the error report of a tick is pending it takes no tick, and the
\* next capture begins only from the select.
TicksDoNotOverlap == []OnePosition /\ [][NoSecondTick]_vars

SlowTickSeen ==
    \E t \in Collectors :
        /\ t.pc = "upload"
        /\ t.kind = profileTypeCPU
        /\ stopCh = "open"
        /\ ~ENABLED TaskTick(t)

\* the wait of a CPU capture can end on its duration at any time, and at once
\* when the context is done or stopCh is closed
CPUWaitCanEnd ==
    \A t \in Collectors :
        t.pc = "cpu"
        => /\ ENABLED TaskCPUStop(t, "duration")
           /\ ctxDone[t.ctx] => ENABLED TaskCPUStop(t, "ctx")
           /\ stopCh = "closed" => ENABLED TaskCPUStop(t, "stop")

\* a capture marked as ended early was ended by the context or stopCh
EarlyOnlyOnSignal ==
    \A t \in Collectors : t.early => (t.pc = "upload" /\ (ctxDone[t.ctx] \/ stopCh = "closed"))

\* whatever ends the wait, the goroutine goes on to the upload with its file
CPUWaitLeadsToUpload ==
    \A t \in Collectors :
        t.pc = "cpu"
        => \A u \in tasks' : SameTask(t, u) => (u = t \/ (u.pc = "upload" /\ u.file))

\* C29: the wait of a CPU capture ends when its duration elapses, when the
\* context is done or when stopCh is closed, whichever comes first; however
\* it ends, the goroutine stays alive, stops the profile and passes the file
\* to uploadProfile.
CPUCaptureEndsEarly ==
    /\ [](CPUWaitCanEnd /\ EarlyOnlyOnSignal)
    /\ [][CPUWaitLeadsToUpload /\ (\A t \in Collectors : t.pc = "cpu" => \E u \in tasks' : SameTask(t, u))]_vars

CPUCaptureEndedEarlySeen ==
    \E t \in Collectors :
        /\ t.kind = profileTypeCPU
        /\ t.pc = "upload"
        /\ t.early
        /\ t.file
        /\ stopCh = "closed"

\* C30: a goroutine holds a temporary blob only between the capture and the
\* return of its collect call: at the select, after a failed capture and
\* after a failed or successful upload the file is gone, and no goroutine
\* exits with a file.
TempFilesRemoved ==
    /\ \A t \in tasks : t.file <=> t.pc \in {"cpu", "upload"}
    /\ \A t \in tasks : t.pc \in {"select", "failed", "collect", "blocked"} => ~t.file

UploadFailedFileRemovedSeen ==
    \E t \in Collectors :
        /\ t.pc = "failed"
        /\ ~t.file
        /\ t.kind = profileTypeGoroutine

\* a goroutine of kind k is running whose stop signal or context has fired
SignalledOfKind(k) ==
    \E t \in tasks : t.kind = k /\ (stopCh = "closed" \/ ctxDone[t.ctx])

\* C27: when stopCh is closed or the context of a running goroutine is done,
\* that goroutine, collector or span aggregator, eventually returns.
SignalledTasksExit ==
    \A k \in Kinds : SignalledOfKind(k) ~> (\A t \in tasks : t.kind # k)

\* the outcome class of an Upload and of a sendMetadata
UploadOutcome ==
    IF ret.err = "none" THEN "delivered"
    ELSE IF ret.err = "upload failed after attempts" THEN "exhausted"
    ELSE "aborted"

DispatchOutcome ==
    IF mdRet.err = "none" THEN "delivered"
    ELSE IF mdRet.err = "failed to send metadata after attempts" THEN "exhausted"
    ELSE "aborted"

\* the sleeps sendMetadata made between two of its requests
DelaysBetweenRequests == SubSeq(mdDelays, 1, mdRequests - 1)

\* C23: against the same sequence of endpoint answers and with the same
\* budget, sendMetadata sends as many requests as Upload, sleeps the same
\* durations between them and ends in the same outcome class (answers whose
\* body cannot be read set aside: sendRequest does not read the body).
DispatchFollowsUploadDiscipline ==
    (upPc = "done" /\ mdPc = "done" /\ s.Retries = mc.retries
     /\ mdRet.err # "HTTPS is required for ingest URL"
     /\ \A i \in DOMAIN uploader : uploader[i] # UnreadableBody)
    => /\ mdRequests = requests
       /\ DelaysBetweenRequests = delays
       /\ DispatchOutcome = UploadOutcome

\* C24: once uploadProfile has returned after a successful Storage.Upload, the
\* metadata of the tick went exactly one way: to stdout and not to the
\* network with a StdoutStorage, to the network and not to stdout otherwise.
ExactlyOneMetadataPath ==
    Uploaded => mdPaths = (IF storage = "StdoutStorage" THEN {"stdout"} ELSE {"network"})

\* while the upload error of a tick stands nothing is posted or printed
NothingSentAfterUploadError ==
    prErr' = "failed to upload profile" => (posted' = posted /\ stdout' = stdout)

MetadataFollowsUpload ==
    /\ uploads <= 1
    /\ prErr = "failed to upload profile"
       => (prPc \in {"done", "idle"} /\ mdPaths = {} /\ metadata = NoMetadata)
    /\ mdPaths # {} => (uploads = 1 /\ uploadResp # "")
    /\ prErr = "failed to send metadata"
       => (prPc \in {"done", "idle"} /\ uploads = 1 /\ uploadResp # "")

\* C25: metadata is sent or printed only in a tick whose Storage.Upload
\* succeeded; when Upload fails nothing is sent or printed for the tick, and
\* when the metadata delivery fails uploadProfile returns with the blob
\* uploaded once, neither repeated nor withdrawn.
MetadataOnlyAfterUpload == []MetadataFollowsUpload /\ [][NothingSentAfterUploadError]_vars

MetadataFailureSeen ==
    /\ prPc = "done"
    /\ prErr = "failed to send metadata"
    /\ uploads = 1
    /\ uploadResp = JSONUpload
    /\ mdPaths = {"network"}
    /\ posted = <<>>

\* stopCh has been closed at most once, and it is closed exactly when it was
SignalClosedOnce == closes <= 1 /\ (closes = 1 <=> stopCh = "closed")

\* close(p.stopCh) is called only on an open channel
CloseOnlyWhenOpen ==
    closes' # closes => (stopCh = "open" /\ stopCh' = "closed" /\ closes' = closes + 1)

\* a Stop that holds no one up at the lock gets through the select at once
StopSignalNeverBlocks ==
    \A c \in Callers : (pc[c] = "stop" /\ mu = NoOne) => ENABLED StopRun(c)

\* C31: over every interleaving of Start and Stop calls of two callers,
\* stopCh is closed at most once: close is called only on an open channel
\* (so Stop never panics) and the select of Stop never waits.
StopSignalFiredAtMostOnce ==
    [](SignalClosedOnce /\ StopSignalNeverBlocks) /\ [][CloseOnlyWhenOpen]_vars

\* the Stop of a restarted profiler has passed the select with stopCh closed
SecondStopFoundSignalFired ==
    gen >= 2 /\ closes = 1 /\ \E c \in Callers : pc[c] = "stop_join"

\* the spans in spanCh or in the map of an aggregator
SpansHeld ==
    {spanCh[j] : j \in 1..Len(spanCh)}
    \cup UNION {{t.spans[j] : j \in 1..Len(t.spans)} : t \in tasks}

\* C32: a span is in spanCh or in an aggregator's map only once it has
\* completed (End has set its duration).
QueuedSpansCompleted == \A i \in SpansHeld : spanState[i] = "ended"

Aggregators == {t \in tasks : t.kind = profileTypeCustom}

\* C33: the flush tick takes the whole map of the aggregator: an aggregator
\* whose map holds spans is at its select, where the tick swaps the map for
\* an empty one and hands the snapshot to processSpans.
FlushTakesBufferedSpans ==
    \A t \in Aggregators : Len(t.spans) > 0 => ENABLED AggFlush(t)

\* C34: while a Stop waits at the join barrier for the goroutines, p.mu is
\* free, so that a Start or Stop of another caller gets the lock and returns.
LockFreeAtJoinBarrier ==
    StopInProgress
    => /\ mu = NoOne
       /\ \A c \in Callers : pc[c] = "start" => ENABLED StartRun(c)
       /\ \A c \in Callers : pc[c] = "stop" => ENABLED StopRun(c)

\* C35: once the aggregator has handled an event (a span or a flush tick) it
\* has released spansLock and waits at its select for the next one: it never
\* waits for a lock it holds itself.
AggregatorLockReleased ==
    \A t \in Aggregators : t.pc = "select" /\ ~t.spansLock

\* a call of Start returns in this step
StartReturns == \E c \in Callers : pc[c] = "start" /\ pc'[c] = "idle"

\* the knob of kind k after the step: the configured value when the Start
\* succeeded and k is enabled, otherwise the value it had
KnobAfterStart(k, before, configured) ==
    IF gen' # gen /\ k \in config.Enabled THEN configured ELSE before

\* C36: a Start sets the memory sample rate, the mutex fraction and the block
\* rate of the host runtime to the configured values only for the kinds that
\* are enabled; the knob of a disabled kind keeps its value.
StartAppliesKnobsOfEnabledKinds ==
    [][StartReturns
       => /\ runtime'.MemProfileRate
               = KnobAfterStart(profileTypeMemory, runtime.MemProfileRate, config.MemProfileRate)
          /\ runtime'.MutexFraction
               = KnobAfterStart(profileTypeMutex, runtime.MutexFraction, config.MutexFraction)
          /\ runtime'.BlockProfileRate
               = KnobAfterStart(profileTypeBlock, runtime.BlockProfileRate, config.BlockProfileRate)]_vars

\* a profiler with mutex and block enabled and memory disabled is running:
\* the two knobs have the configured values, the memory rate its old one
KnobsOfEnabledKindsSeen ==
    /\ initialized /\ gen = 1
    /\ config.Enabled = {profileTypeMutex, profileTypeBlock}
    /\ runtime.MutexFraction = config.MutexFraction
    /\ runtime.BlockProfileRate = config.BlockProfileRate
    /\ runtime.MutexFraction # beforeStart.MutexFraction
    /\ runtime.MemProfileRate = beforeStart.MemProfileRate
    /\ runtime.MemProfileRate # config.MemProfileRate

TasksOfKind(k) == {t \in tasks : t.kind = k}

\* C37: over every sequence of Start, Stop and context cancellations there
\* is at most one live goroutine of each kind (collector or aggregator), so
\* two CPU captures of the profiler never overlap.
OneTaskPerKind == \A k \in Kinds : Cardinality(TasksOfKind(k)) <= 1

\* after a Stop and a second Start the CPU collector of the second Start is
\* capturing, alone
RestartedCaptureSeen ==
    /\ gen = 2
    /\ \E t \in TasksOfKind(profileTypeCPU) : t.gen = 2 /\ t.pc = "cpu"

EveryEnabledKindLive == \A k \in config.Enabled : TasksOfKind(k) # {}

\* C38 as stated: whenever the flag says running (and no Stop is at its join
\* barrier) every enabled kind has a live goroutine, so that a profiler whose
\* goroutines have all exited on a cancelled context is not running.
FlagTracksTasks == (initialized /\ ~StopInProgress) => EveryEnabledKindLive

\* until stopCh is closed or the cancellable context is done, a running
\* profiler has a live goroutine of every enabled kind
RunningHasTasksUntilSignal ==
    (initialized /\ stopCh = "open" /\ \A x \in Cancellable : ~ctxDone[x])
    => EveryEnabledKindLive

\* the flag is set only by a Start that succeeds and cleared only, and
\* always, by a Stop that returns from its join barrier; a Start on a running
\* profiler without goroutines fails like any other
FlagStep ==
    /\ (~initialized /\ initialized') => (gen' = gen + 1 /\ StartReturns)
    /\ (initialized /\ ~initialized')
       => \E c \in Callers : pc[c] = "stop_join" /\ pc'[c] = "idle"
    /\ \A c \in Callers : (pc[c] = "stop_join" /\ pc'[c] = "idle") => ~initialized'
    /\ (initialized /\ tasks = {} /\ StartReturns)
       => /\ initialized' /\ tasks' = {} /\ gen' = gen
          /\ \E c \in Callers : pc[c] = "start" /\ result'[c] = "already started"

\* C38: the flag follows Start and Stop, not the goroutines: it is set by a
\* successful Start and cleared by a Stop that has joined; a running profiler
\* has a live goroutine of every enabled kind only until stopCh is closed or
\* the context is done, and when the goroutines have exited on a cancelled
\* context the flag stays set and a Start still gets the already-started error.
FlagFollowsStartAndStop == []RunningHasTasksUntilSignal /\ [][FlagStep]_vars

\* the goroutines have exited on the cancelled context, no Stop was called,
\* and a Start has been refused
StartRefusedAfterCancelSeen ==
    /\ initialized /\ tasks = {} /\ stopCh = "open" /\ gen = 1
    /\ \E x \in Cancellable : ctxDone[x]
    /\ \E c \in Callers : pc[c] = "idle" /\ result[c] = "already started"

\* C39: in a metadata record that was built, the service, type, timestamp
\* and profile_url entries have the values uploadProfile derived from the
\* configuration, the clock and the upload answer, whatever keys the
\* configured tags use.
ReservedKeysKept ==
    (prPc \in {"dispatch", "done"} /\ metadata # NoMetadata)
    => LET r == Unmarshal(uploadResp)
       IN  /\ metadata["service"] = serviceName
           /\ metadata["type"] = r.Type
           /\ metadata["timestamp"] = ToString(now)
           /\ metadata["profile_url"] = r.ProfileURL

\* the spans handed to processSpans in a snapshot
SpansSnapshot ==
    UNION {{snapshots[k][j] : j \in 1..Len(snapshots[k])} : k \in 1..Len(snapshots)}

\* a span created without a profiler is in no queue, map or snapshot, and it
\* was neither accepted nor discarded by spanCh
BareSpansNowhere ==
    spanBare \cap (SpansHeld \cup SpansSnapshot \cup spanQueued \cup spanDropped) = {}

\* the span and the context StartSpan returned can be used: the span can be
\* ended, and a further span can be started
BareSpansUsable ==
    \A i \in spanBare :
        /\ spanState[i] # "none"
        /\ spanState[i] = "started" => ENABLED SpanEnd(i)
        /\ nextSpan \in DOMAIN spanState => ENABLED StartSpan(FALSE)

\* creating a span without a profiler changes nothing of the profiler
BareSpanStep ==
    spanBare' # spanBare
    => /\ UNCHANGED <<spanCh, tasks, snapshots, spanQueued, spanDropped>>
       /\ spanBare' = spanBare \cup {nextSpan}
       /\ spanState'[nextSpan] = "started"

\* C40: a StartSpan whose context carries no profiler changes no intake
\* queue and leaves the span out of every queue, map and snapshot for good;
\* the span it returns can be ended and the context used again.
UnassociatedSpanNotQueued ==
    [](BareSpansNowhere /\ BareSpansUsable) /\ [][BareSpanStep]_vars

\* a span without a profiler has been created and ended while a span with a
\* profiler sits in spanCh
BareSpanEndedSeen ==
    /\ \E i \in spanBare : spanState[i] = "ended"
    /\ spanCh # <<>>
====
